---- MODULE Spec2Model ----
(***************************************************************************)
(* Model of the bhavcopy dashboard (src/main.py): CSV normalisation        *)
(* (process_csv), the SQLite table bhavcopy and its writers and readers    *)
(* (init_db, insert_data, get_unique_dates, perform_comparison) and the    *)
(* Streamlit script main that drives them.                                 *)
(*                                                                         *)
(* Text is a sequence of one-character strings, so that slicing, parsing   *)
(* and SQLite's byte-wise ordering are computed rather than assumed.       *)
(* Numbers are integers: the model's cells hold no fractional values.      *)
(***************************************************************************)
EXTENDS Integers, Sequences, FiniteSets, TLC

\* The most files one behaviour ingests (over all runs of the script).
MaxIngest == 3

(***************************************************************************)
(* Text                                                                    *)
(***************************************************************************)

\* The characters the inputs are written in, in ASCII order.
Chars ==
    << " ", "-", ".", "0", "1", "2", "3", "4", "5", "6", "7", "8", "9",
       "A", "B", "C", "D", "F", "I", "T", "U", "X", "c", "f", "o", "s", "v" >>

Ord(c) == CHOOSE i \in DOMAIN Chars : Chars[i] = c

Digits == << "0", "1", "2", "3", "4", "5", "6", "7", "8", "9" >>

Range(s) == { s[i] : i \in DOMAIN s }

IsDigit(c) == c \in Range(Digits)

DigitVal(c) == (CHOOSE i \in DOMAIN Digits : Digits[i] = c) - 1

Min(a, b) == IF a < b THEN a ELSE b

\* Python's s[a:b] for 0 <= a.
Slice(s, a, b) == SubSeq(s, a + 1, Min(b, Len(s)))

\* Python's s[a:].
SliceFrom(s, a) == SubSeq(s, a + 1, Len(s))

IndexOf(s, x) == CHOOSE i \in DOMAIN s : s[i] = x

\* memcmp order of two texts (SQLite's BINARY collation).
RECURSIVE TextLess(_, _)
TextLess(s, t) ==
    IF t = << >> THEN FALSE
    ELSE IF s = << >> THEN TRUE
    ELSE IF s[1] = t[1] THEN TextLess(Tail(s), Tail(t))
    ELSE Ord(s[1]) < Ord(t[1])

AllDigits(s) == s # << >> /\ \A i \in DOMAIN s : IsDigit(s[i])

\* A text that reads as an integer literal.
IsNumText(s) ==
    \/ AllDigits(s)
    \/ Len(s) > 1 /\ s[1] = "-" /\ AllDigits(Tail(s))

RECURSIVE ParseNat(_, _)
ParseNat(s, acc) ==
    IF s = << >> THEN acc ELSE ParseNat(Tail(s), 10 * acc + DigitVal(s[1]))

ParseNum(s) == IF s[1] = "-" THEN 0 - ParseNat(Tail(s), 0) ELSE ParseNat(s, 0)

RECURSIVE NatToText(_)
NatToText(n) ==
    IF n < 10 THEN << Digits[n + 1] >>
    ELSE NatToText(n \div 10) \o << Digits[(n % 10) + 1] >>

NumToText(n) == IF n < 0 THEN << "-" >> \o NatToText(0 - n) ELSE NatToText(n)

(***************************************************************************)
(* Cells: a value of a DataFrame or of a table row                         *)
(***************************************************************************)

Null == [k |-> "null", n |-> 0, s |-> << >>]

Num(i) == [k |-> "num", n |-> i, s |-> << >>]

Txt(t) == [k |-> "txt", n |-> 0, s |-> t]

\* SQLite's order of the values a TEXT column holds: NULL first, then memcmp.
CellLess(a, b) ==
    IF b.k = "null" THEN FALSE
    ELSE IF a.k = "null" THEN TRUE
    ELSE TextLess(a.s, b.s)

(***************************************************************************)
(* datetime.strptime(date_str, '%d%m%y').strftime('%Y-%m-%d')              *)
(***************************************************************************)

\* The lengths %d can match at the head of s, in the regex's order of
\* preference: 3[0-1] | [1-2]\d | 0[1-9] | [1-9] | " "[1-9].
DayLens(s) ==
    (IF Len(s) >= 2 /\ ( \/ s[1] = "3" /\ s[2] \in {"0", "1"}
                         \/ s[1] \in {"1", "2"} /\ IsDigit(s[2])
                         \/ s[1] = "0" /\ IsDigit(s[2]) /\ s[2] # "0" )
     THEN << 2 >> ELSE << >>)
    \o (IF Len(s) >= 1 /\ IsDigit(s[1]) /\ s[1] # "0" THEN << 1 >> ELSE << >>)
    \o (IF Len(s) >= 2 /\ s[1] = " " /\ IsDigit(s[2]) /\ s[2] # "0"
        THEN << 2 >> ELSE << >>)

\* The lengths %m can match: 1[0-2] | 0[1-9] | [1-9].
MonthLens(s) ==
    (IF Len(s) >= 2 /\ ( \/ s[1] = "1" /\ s[2] \in {"0", "1", "2"}
                         \/ s[1] = "0" /\ IsDigit(s[2]) /\ s[2] # "0" )
     THEN << 2 >> ELSE << >>)
    \o (IF Len(s) >= 1 /\ IsDigit(s[1]) /\ s[1] # "0" THEN << 1 >> ELSE << >>)

\* %y: \d\d.
YearOk(s) == Len(s) >= 2 /\ IsDigit(s[1]) /\ IsDigit(s[2])

\* The matches of %m%y at the head of rest, %d having matched d characters.
MonthMatches(rest, d, ml) ==
    [j \in DOMAIN ml |->
        IF YearOk(SliceFrom(rest, ml[j])) THEN << [d |-> d, m |-> ml[j]] >> ELSE << >>]

DayMatches(s, dl) ==
    [i \in DOMAIN dl |->
        MonthMatches(SliceFrom(s, dl[i]), dl[i], MonthLens(SliceFrom(s, dl[i])))]

RECURSIVE Flatten(_)
Flatten(ss) == IF ss = << >> THEN << >> ELSE Head(ss) \o Flatten(Tail(ss))

\* Every way the regex matches a prefix of s, in backtracking order.
Matches(s) == Flatten(Flatten(DayMatches(s, DayLens(s))))

\* The digits of a matched field; the space of " 5" counts for nothing.
FieldVal(s) == ParseNat(IF s[1] = " " THEN Tail(s) ELSE s, 0)

IsLeap(y) == (y % 4 = 0 /\ y % 100 # 0) \/ y % 400 = 0

DaysInMonth(y, m) ==
    IF m = 2 THEN (IF IsLeap(y) THEN 29 ELSE 28)
    ELSE IF m \in {4, 6, 9, 11} THEN 30 ELSE 31

Pad2(n) == << Digits[(n \div 10) + 1], Digits[(n % 10) + 1] >>

Pad4(n) == Pad2(n \div 100) \o Pad2(n % 100)

strftime(y, m, d) == Pad4(y) \o << "-" >> \o Pad2(m) \o << "-" >> \o Pad2(d)

\* %y: 00..68 are 2000..2068, 69..99 are 1969..1999.
Century(yy) == IF yy <= 68 THEN 2000 + yy ELSE 1900 + yy

\* [ok, date]: ok is FALSE where strptime raises ValueError (text left over
\* after the match, or a day the month does not have).
MakeDate(day, mon, year, consumed) ==
    IF ~consumed \/ day > DaysInMonth(year, mon)
    THEN [ok |-> FALSE, date |-> << >>]
    ELSE [ok |-> TRUE, date |-> strftime(year, mon, day)]

\* The date of the first match, of dl characters for %d and ml for %m.
Matched(s, dl, ml) ==
    MakeDate(FieldVal(Slice(s, 0, dl)),
             FieldVal(Slice(s, dl, dl + ml)),
             Century(FieldVal(Slice(s, dl + ml, dl + ml + 2))),
             dl + ml + 2 = Len(s))

FirstMatch(s, ms) ==
    IF ms = << >> THEN [ok |-> FALSE, date |-> << >>]
    ELSE Matched(s, ms[1].d, ms[1].m)

strptime(s) == FirstMatch(s, Matches(s))

(***************************************************************************)
(* Uploaded files and pd.read_csv                                          *)
(***************************************************************************)

\* An uploaded file is [name, header, rows]: its name, the column names of
\* its first line, and one sequence of raw cell texts per data line.

\* read_csv gives a column a numeric dtype when every cell of it is empty or
\* reads as a number; any other column holds its cells as strings.
IsNumCol(file, j) ==
    \A r \in DOMAIN file.rows :
        file.rows[r][j] = << >> \/ IsNumText(file.rows[r][j])

ReadCell(numeric, raw) ==
    IF raw = << >> THEN Null
    ELSE IF numeric THEN Num(ParseNum(raw))
    ELSE Txt(raw)

\* A DataFrame is [columns, rows]: the column labels in order and, per row,
\* the cells in that order.
read_csv(file) ==
    [columns |-> file.header,
     rows    |-> [r \in DOMAIN file.rows |->
                    [j \in DOMAIN file.header |->
                        ReadCell(IsNumCol(file, j), file.rows[r][j])]]]

HasColumn(df, c) == c \in Range(df.columns)

\* The .str accessor exists on an object column only.
IsObjectCol(df, c) ==
    \/ df.rows = << >>
    \/ \E r \in DOMAIN df.rows : df.rows[r][IndexOf(df.columns, c)].k = "txt"

SetAt(rows, j, v) == [r \in DOMAIN rows |-> [rows[r] EXCEPT ![j] = v]]

\* df[c] = v: the column is overwritten in place, or added as the last one.
SetColumn(df, c, v) ==
    IF HasColumn(df, c)
    THEN [columns |-> df.columns, rows |-> SetAt(df.rows, IndexOf(df.columns, c), v)]
    ELSE [columns |-> Append(df.columns, c),
          rows    |-> [r \in DOMAIN df.rows |-> Append(df.rows[r], v)]]

(***************************************************************************)
(* process_csv                                                             *)
(***************************************************************************)

numeric_columns ==
    << "NET_CHANGE", "OI_NO_CON", "OPEN_PRICE", "HIGH_PRICE", "LOW_PRICE",
       "CLOSE_PRIC", "SETTLEMENT", "TRADED_QUA", "TRD_NO_CON", "TRADED_VAL" >>

\* The columns of a source file, in the order the exchange writes them.
SourceCols ==
    << "CONTRACT_D", "PREVIOUS_S", "OPEN_PRICE", "HIGH_PRICE", "LOW_PRICE",
       "CLOSE_PRIC", "SETTLEMENT", "NET_CHANGE", "OI_NO_CON", "TRADED_QUA",
       "TRD_NO_CON", "TRADED_VAL" >>

\* The rename mapping of df.rename; a label it does not list is kept.
Rename(c) ==
    CASE c = "CONTRACT_D" -> "contract_d"
      [] c = "PREVIOUS_S" -> "previous_s"
      [] c = "OPEN_PRICE" -> "open_price"
      [] c = "HIGH_PRICE" -> "high_price"
      [] c = "LOW_PRICE"  -> "low_price"
      [] c = "CLOSE_PRIC" -> "close_price"
      [] c = "SETTLEMENT" -> "settlement"
      [] c = "NET_CHANGE" -> "net_change"
      [] c = "OI_NO_CON"  -> "oi_no_con"
      [] c = "TRADED_QUA" -> "traded_qua"
      [] c = "TRD_NO_CON" -> "trd_no_con"
      [] c = "TRADED_VAL" -> "traded_val"
      [] OTHER -> c

\* .str[6:] of one cell: a missing value stays missing.
StripPrefix(v) == IF v.k = "txt" THEN Txt(SliceFrom(v.s, 6)) ELSE v

StripAt(rows, j) ==
    [r \in DOMAIN rows |-> [rows[r] EXCEPT ![j] = StripPrefix(rows[r][j])]]

\* df['CONTRACT_D'] = df['CONTRACT_D'].str[6:]
StripColumn(df) ==
    [columns |-> df.columns,
     rows    |-> StripAt(df.rows, IndexOf(df.columns, "CONTRACT_D"))]

\* pd.to_numeric(..., errors='coerce').
to_numeric(v) ==
    IF v.k = "txt"
    THEN (IF IsNumText(v.s) THEN Num(ParseNum(v.s)) ELSE Null)
    ELSE v

CoerceAt(rows, j) ==
    [r \in DOMAIN rows |-> [rows[r] EXCEPT ![j] = to_numeric(rows[r][j])]]

\* df[col] = pd.to_numeric(df[col], errors='coerce')
CoerceColumn(df, col) ==
    [columns |-> df.columns, rows |-> CoerceAt(df.rows, IndexOf(df.columns, col))]

\* The loop over numeric_columns.
RECURSIVE CoerceAll(_, _)
CoerceAll(df, cols) ==
    IF cols = << >> THEN df
    ELSE CoerceAll(CoerceColumn(df, Head(cols)), Tail(cols))

\* filename[2:8]
DateStr(name) == Slice(name, 2, 8)

\* What process_csv gives: err names the exception it raises ("" for none).
Raise(e) == [err |-> e, df |-> [columns |-> << >>, rows |-> << >>]]

\* Lines 59-75: the columns are renamed and the DataFrame returned.
Renamed(df) ==
    [err |-> "",
     df  |-> [columns |-> [j \in DOMAIN df.columns |-> Rename(df.columns[j])],
              rows    |-> df.rows]]

\* Lines 52-57: df[col] of a column the file lacks raises KeyError.
Coerced(df) ==
    IF \E i \in DOMAIN numeric_columns : ~HasColumn(df, numeric_columns[i])
    THEN Raise("KeyError")
    ELSE Renamed(CoerceAll(df, numeric_columns))

\* Line 50: df['CONTRACT_D'] raises KeyError, .str AttributeError.
Stripped(df) ==
    IF ~HasColumn(df, "CONTRACT_D") THEN Raise("KeyError")
    ELSE IF ~IsObjectCol(df, "CONTRACT_D") THEN Raise("AttributeError")
    ELSE Coerced(StripColumn(df))

\* Dated without the ValueError: a name that holds no date is let through.
Dated_Unchecked(df, date) == Stripped(SetColumn(df, "date", Txt(date.date)))

\* Lines 44-47: strptime raises ValueError.
Dated(df, date) ==
    IF ~date.ok THEN Raise("ValueError")
    ELSE Stripped(SetColumn(df, "date", Txt(date.date)))

process_csv(file) == Dated(read_csv(file), strptime(DateStr(file.name)))

(***************************************************************************)
(* The table bhavcopy                                                      *)
(***************************************************************************)

\* The columns of CREATE TABLE, in order; the INSERT OR REPLACE of
\* insert_data lists them in the same order.
TableCols ==
    << "date", "contract_d", "previous_s", "open_price", "high_price",
       "low_price", "close_price", "settlement", "net_change", "oi_no_con",
       "traded_qua", "trd_no_con", "traded_val" >>

\* The columns declared TEXT; the others are declared REAL.
TextCols == { "date", "contract_d" }

\* The REAL columns that are not part of the key.
RealCols == Range(TableCols) \ TextCols

\* What SQLite stores for a bound value under the column's affinity: a TEXT
\* column turns a number into its text, a REAL column turns a text that
\* reads as a number into the number and keeps any other text as text.
\* (An integer becomes its digits; the model's columns hold no floats, whose
\* text would carry a decimal point.)
Affinity(c, v) ==
    IF c \in TextCols
    THEN (IF v.k = "num" THEN Txt(NumToText(v.n)) ELSE v)
    ELSE (IF v.k = "txt" /\ IsNumText(v.s) THEN Num(ParseNum(v.s)) ELSE v)

\* The row of an INSERT that names the columns `columns` (to_sql's): a table
\* column the statement does not name is NULL.
NamedRow(columns, vals) ==
    [c \in Range(TableCols) |->
        IF c \in Range(columns)
        THEN Affinity(c, vals[IndexOf(columns, c)]) ELSE Null]

\* The row of VALUES (?, ..., ?) bound to tuple(row): the i-th value goes to
\* the i-th column the statement lists, whatever the DataFrame calls it.
PositionalRow(vals) ==
    [c \in Range(TableCols) |-> Affinity(c, vals[IndexOf(TableCols, c)])]

\* PRIMARY KEY (date, contract_d): two rows collide when their keys are equal
\* and hold no NULL (SQLite lets NULL into a key and never finds it equal).
Conflicts(r, q) ==
    /\ r.date.k # "null" /\ r.contract_d.k # "null"
    /\ r.date = q.date /\ r.contract_d = q.contract_d

RECURSIVE Without(_, _)
Without(tbl, r) ==
    IF tbl = << >> THEN << >>
    ELSE IF Conflicts(r, Head(tbl)) THEN Without(Tail(tbl), r)
    ELSE << Head(tbl) >> \o Without(Tail(tbl), r)

\* INSERT OR REPLACE: the colliding row is deleted, the new one stored.
InsertOrReplace(tbl, r) == Append(Without(tbl, r), r)

(***************************************************************************)
(* insert_data                                                             *)
(***************************************************************************)

\* df.to_sql(..., if_exists='append', index=False): one plain INSERT per row
\* in one transaction. [ok, db]: ok is FALSE at the first key collision
\* (sqlite3.IntegrityError).
RECURSIVE to_sql(_, _, _)

\* The INSERT of the row r, then the rows of rest.
InsertRow(tbl, r, columns, rest) ==
    IF \E i \in DOMAIN tbl : Conflicts(r, tbl[i])
    THEN [ok |-> FALSE, db |-> tbl]
    ELSE to_sql(Append(tbl, r), columns, rest)

to_sql(tbl, columns, rows) ==
    IF rows = << >> THEN [ok |-> TRUE, db |-> tbl]
    ELSE InsertRow(tbl, NamedRow(columns, Head(rows)), columns, Tail(rows))

\* The loop over df.iterrows(): a tuple that does not have one value per
\* placeholder is refused (reported by st.error) and the loop goes on.
\* [db, errors].
RECURSIVE Fallback(_, _, _)
Fallback(tbl, rows, errors) ==
    IF rows = << >> THEN [db |-> tbl, errors |-> errors]
    ELSE IF Len(Head(rows)) # Len(TableCols)
         THEN Fallback(tbl, Tail(rows), errors + 1)
         ELSE Fallback(InsertOrReplace(tbl, PositionalRow(Head(rows))),
                       Tail(rows), errors)

\* Lines 25-37: conn.commit() and conn.close() after the loop.
Committed(fb) ==
    [db |-> fb.db, raised |-> "", closed |-> TRUE, path |-> "fallback",
     errors |-> fb.errors]

\* Lines 22-37, bulk being what to_sql did: on IntegrityError its
\* transaction is rolled back and the rows are written one by one.
AfterBulk(tbl, df, bulk) ==
    IF bulk.ok
    THEN [db |-> bulk.db, raised |-> "", closed |-> TRUE, path |-> "bulk",
          errors |-> 0]
    ELSE Committed(Fallback(tbl, df.rows, 0))

\* [db, raised, closed, path, errors]: the table afterwards, the exception
\* that leaves insert_data ("" for none), whether conn.close() was reached,
\* the path taken and the rows st.error reported.
insert_data(tbl, df) ==
    IF \E j \in DOMAIN df.columns : df.columns[j] \notin Range(TableCols)
    THEN \* sqlite3.OperationalError (no such column): not caught here
         [db |-> tbl, raised |-> "OperationalError", closed |-> FALSE,
          path |-> "bulk", errors |-> 0]
    ELSE AfterBulk(tbl, df, to_sql(tbl, df.columns, df.rows))

(***************************************************************************)
(* get_unique_dates                                                        *)
(***************************************************************************)

\* The elements of S in SQLite's ascending order.
RECURSIVE SortCells(_)

Least(S) == CHOOSE x \in S : \A y \in S \ {x} : CellLess(x, y)

LeastFirst(S, m) == << m >> \o SortCells(S \ {m})

SortCells(S) == IF S = {} THEN << >> ELSE LeastFirst(S, Least(S))

\* get_unique_dates without DISTINCT and ORDER BY: one date per row.
get_unique_dates_PerRow(tbl) == [i \in DOMAIN tbl |-> tbl[i].date]

\* SELECT DISTINCT date FROM bhavcopy ORDER BY date
get_unique_dates(tbl) == SortCells({ tbl[i].date : i \in DOMAIN tbl })

(***************************************************************************)
(* perform_comparison                                                      *)
(***************************************************************************)

\* The rows t2 of the LEFT JOIN for the row t1.
JoinMatches(tbl, t1, date2) ==
    SelectSeq(tbl, LAMBDA t2 :
        /\ t1.contract_d.k # "null" /\ t2.contract_d = t1.contract_d
        /\ t2.date = date2)

\* One row of the query's result, t2 being the matched row or none.
Joined(t1, oi2, close2) ==
    [contract_d       |-> t1.contract_d,
     oi_today         |-> t1.oi_no_con,
     oi_comparison    |-> oi2,
     close_today      |-> t1.close_price,
     close_comparison |-> close2]

RECURSIVE JoinRows(_, _, _)
JoinRows(t1, ms, acc) ==
    IF ms = << >> THEN acc
    ELSE JoinRows(t1, Tail(ms),
                  Append(acc, Joined(t1, Head(ms).oi_no_con, Head(ms).close_price)))

\* What the row t1 gives the result, ms being its matches of date2.
QueryRow(t1, ms, date1) ==
    IF t1.date # date1 THEN << >>
    ELSE IF ms = << >> THEN << Joined(t1, Null, Null) >>
    ELSE JoinRows(t1, ms, << >>)

\* The query: every row of date1, joined to its rows of date2, or to NULLs.
RECURSIVE Query(_, _, _, _)
Query(tbl, rest, date1, date2) ==
    IF rest = << >> THEN << >>
    ELSE QueryRow(Head(rest), JoinMatches(tbl, Head(rest), date2), date1)
         \o Query(tbl, Tail(rest), date1, date2)

\* dropna left out: the unmatched rows stay.
dropna_Kept(rows) == rows

\* dropna(subset=['oi_comparison', 'close_comparison'])
dropna(rows) ==
    SelectSeq(rows, LAMBDA r :
        r.oi_comparison.k # "null" /\ r.close_comparison.k # "null")

\* Minus with its operands exchanged.
Minus_Exchanged(a, b) ==
    IF a.k = "num" /\ b.k = "num" THEN Num(b.n - a.n) ELSE Null

\* Series subtraction: a missing operand gives a missing result.
Minus(a, b) ==
    IF a.k = "num" /\ b.k = "num" THEN Num(a.n - b.n) ELSE Null

WithChanges(r) ==
    [contract_d       |-> r.contract_d,
     oi_today         |-> r.oi_today,
     oi_comparison    |-> r.oi_comparison,
     close_today      |-> r.close_today,
     close_comparison |-> r.close_comparison,
     OI_Change        |-> Minus(r.oi_today, r.oi_comparison),
     Price_Change     |-> Minus(r.close_today, r.close_comparison)]

\* The DataFrame perform_comparison returns. Subtracting a text raises
\* TypeError, which is caught: the result is then the empty DataFrame.
Changes(kept) ==
    IF \E i \in DOMAIN kept :
          "txt" \in { kept[i].oi_today.k, kept[i].oi_comparison.k,
                      kept[i].close_today.k, kept[i].close_comparison.k }
    THEN << >>
    ELSE [i \in DOMAIN kept |-> WithChanges(kept[i])]

perform_comparison(tbl, date1, date2) ==
    Changes(dropna(Query(tbl, tbl, date1, date2)))

(***************************************************************************)
(* The files a user may upload                                             *)
(***************************************************************************)

FileName(ddmmyy) == << "f", "o" >> \o ddmmyy \o << ".", "c", "s", "v" >>

\* 5 January 2024, 4 February 2024 and a 31st of February.
Jan05 == << "0", "5", "0", "1", "2", "4" >>

Feb04 == << "0", "4", "0", "2", "2", "4" >>

Feb31 == << "3", "1", "0", "2", "2", "4" >>

\* CONTRACT_D: a six-character prefix and the contract.
RawContract(c) == << "F", "U", "T", "I", "D", "X", c >>

\* One data line in the order of SourceCols.
SourceRow(contract, prev, open, close, oi) ==
    << RawContract(contract), prev, open, << "9", "9" >>, << "8", "0" >>, close,
       << "9", "1" >>, << "-", "2" >>, oi, << "7" >>, << "3" >>, << "5", "0" >> >>

RowA1 == SourceRow("A", << "9", "0" >>, << "9", "5" >>,
                   << "1", "0", "0" >>, << "1", "0", "0" >>)

RowB1 == SourceRow("B", << "4", "0" >>, << "4", "1" >>, << "4", "2" >>, << "1", "0" >>)

RowA2 == SourceRow("A", << "1", "0", "0" >>, << "9", "2" >>, << "9", "0" >>, << "8", "0" >>)

\* RowA1 again, with other prices and open interest.
RowA3 == SourceRow("A", << "9", "0" >>, << "9", "6" >>,
                   << "1", "0", "1" >>, << "1", "2", "0" >>)

\* Cells that are not numbers in PREVIOUS_S and in OI_NO_CON.
RowC == SourceRow("C", << "X" >>, << "5", "0" >>, << "5", "1" >>, << "X" >>)

RowD == SourceRow("D", << "6", "0" >>, << "6", "1" >>, << "6", "2" >>, << "5" >>)

\* A line whose CONTRACT_D cell is empty.
RowNoContract == [RowD EXCEPT ![1] = << >>]

\* s without its j-th element.
DropAt(s, j) == SubSeq(s, 1, j - 1) \o SubSeq(s, j + 1, Len(s))

\* A file of 5 January whose j-th source column is absent.
Lacking(j) ==
    [name   |-> FileName(Jan05),
     header |-> DropAt(SourceCols, j),
     rows   |-> << DropAt(RowD, j) >>]

Files ==
    << [name |-> FileName(Jan05), header |-> SourceCols, rows |-> << RowA1, RowB1 >>],
       [name |-> FileName(Feb04), header |-> SourceCols, rows |-> << RowA2 >>],
       [name |-> FileName(Jan05), header |-> SourceCols, rows |-> << RowA3 >>],
       [name |-> FileName(Feb31), header |-> SourceCols, rows |-> << RowA2 >>],
       [name |-> FileName(Feb04), header |-> SourceCols, rows |-> << RowC >>],
       [name |-> FileName(Feb04), header |-> Append(SourceCols, "EXTRA"),
        rows |-> << Append(RowD, << "1" >>) >>],
       [name |-> FileName(Feb04), header |-> SourceCols,
        rows |-> << RowNoContract, RowB1 >>] >>
    \o [j \in DOMAIN SourceCols |-> Lacking(j)]

(***************************************************************************)
(* main: one run of the script per user interaction                        *)
(***************************************************************************)

VARIABLES
    db,            \* the table bhavcopy, in rowid order
    pc,            \* where the script is: "files", "ui" or "done"
    ingested,      \* the files processed so far
    conns,         \* the connections opened and not closed
    last,          \* the file the loop processed last, and what became of it
    badSeen,       \* a file of this batch was skipped for its filename date
    unique_dates,  \* what get_unique_dates returned in this run
    comparison     \* what perform_comparison returned in this run

vars == << db, pc, ingested, conns, last, badSeen, unique_dates, comparison >>

NoFile == [file |-> 0, outcome |-> "", err |-> "", path |-> ""]

NoComparison == [shown |-> FALSE, date1 |-> Null, date2 |-> Null, rows |-> << >>]

Init ==
    /\ db = << >>
    /\ pc = "done"
    /\ ingested = 0
    /\ conns = 0
    /\ last = NoFile
    /\ badSeen = FALSE
    /\ unique_dates = << >>
    /\ comparison = NoComparison

\* init_db: CREATE TABLE IF NOT EXISTS, commit, close. The statement cannot
\* fail here, so the connection is closed.
init_db(tbl) == [db |-> tbl, closed |-> TRUE]

Leak(closed) == IF closed THEN 0 ELSE 1

\* The script starts: init_db, then the loop over the uploaded files.
Start ==
    /\ pc = "done"
    /\ db' = init_db(db).db
    /\ conns' = conns + Leak(init_db(db).closed)
    /\ pc' = "files"
    /\ last' = NoFile
    /\ badSeen' = FALSE
    /\ unique_dates' = << >>
    /\ comparison' = NoComparison
    /\ UNCHANGED ingested

\* One iteration of the loop, on the file Files[i]: process_csv and
\* insert_data inside try/except Exception, then on to the next file.
ProcessFile(i) ==
    /\ pc = "files"
    /\ ingested < MaxIngest
    /\ \E p \in { process_csv(Files[i]) } :
          IF p.err # ""
          THEN /\ db' = db
               /\ conns' = conns
               /\ last' = [file |-> i, outcome |-> "skipped", err |-> p.err,
                           path |-> ""]
               /\ badSeen' = (badSeen \/ p.err = "ValueError")
          ELSE \E w \in { insert_data(db, p.df) } :
               /\ db' = w.db
               /\ conns' = conns + Leak(w.closed)
               /\ last' = [file |-> i,
                           outcome |-> IF w.raised = "" THEN "written" ELSE "failed",
                           err |-> w.raised, path |-> w.path]
               /\ badSeen' = badSeen
    /\ ingested' = ingested + 1
    /\ pc' = "files"
    /\ UNCHANGED << unique_dates, comparison >>

\* The loop is over (the uploader holds no further file): get_unique_dates,
\* whose finally closes the connection.
EndBatch ==
    /\ pc = "files"
    /\ unique_dates' = get_unique_dates(db)
    /\ pc' = "ui"
    /\ last' = NoFile
    /\ UNCHANGED << db, ingested, conns, badSeen, comparison >>

\* A value a selectbox offers counts as chosen when it is truthy.
Truthy(d) == d.k = "txt" /\ d.s # << >>

\* "Compare Dates" is clicked with date1 and date2 selected;
\* perform_comparison's finally closes the connection.
Compare(date1, date2) ==
    /\ pc = "ui"
    /\ unique_dates # << >>
    /\ Truthy(date1) /\ Truthy(date2) /\ date1 # date2
    /\ comparison' = [shown |-> TRUE, date1 |-> date1, date2 |-> date2,
                      rows |-> perform_comparison(db, date1, date2)]
    /\ pc' = "done"
    /\ UNCHANGED << db, ingested, conns, last, badSeen, unique_dates >>

\* The run ends without a comparison.
NoCompare ==
    /\ pc = "ui"
    /\ pc' = "done"
    /\ UNCHANGED << db, ingested, conns, last, badSeen, unique_dates, comparison >>

Next ==
    \/ Start
    \/ \E i \in DOMAIN Files : ProcessFile(i)
    \/ EndBatch
    \/ \E date1 \in Range(unique_dates), date2 \in Range(unique_dates) :
          Compare(date1, date2)
    \/ NoCompare

Spec == Init /\ [][Next]_vars

(***************************************************************************)
(* Vocabulary of the properties                                            *)
(***************************************************************************)

\* The step is one iteration of main's loop; Files[last'.file] is its file.
Ingests == ingested' = ingested + 1

\* The filename's date substring parses.
HasDate(f) == strptime(DateStr(f.name)).ok

\* A file of the twelve source columns and no other, with a date in its
\* name and a CONTRACT_D column of strings.
ValidFile(f) ==
    /\ HasDate(f)
    /\ Range(f.header) = Range(SourceCols)
    /\ Len(f.header) = Len(SourceCols)
    /\ \E r \in DOMAIN f.rows :
          LET cell == f.rows[r][IndexOf(f.header, "CONTRACT_D")]
          IN  cell # << >> /\ ~IsNumText(cell)

Key(r) == << r.date, r.contract_d >>

Keys(tbl) == { Key(tbl[i]) : i \in DOMAIN tbl }

KeysOf(S) == { Key(r) : r \in S }

Count(tbl, r) == Cardinality({ i \in DOMAIN tbl : tbl[i] = r })

\* The same rows, as many times each.
SameRows(t, u) ==
    /\ Len(t) = Len(u)
    /\ \A r \in Range(t) \cup Range(u) : Count(t, r) = Count(u, r)

\* The rows a file submits: what process_csv returns, each row under the
\* names of its columns. A file process_csv rejects submits none.
Submitted(f) ==
    LET p == process_csv(f)
    IN  IF p.err # "" THEN {}
        ELSE { NamedRow(p.df.columns, p.df.rows[r]) : r \in DOMAIN p.df.rows }

\* The calendar day a DDMMYY filename names, as << year, month, day >>.
CalendarDay(f) ==
    << Century(FieldVal(Slice(DateStr(f.name), 4, 6))),
       FieldVal(Slice(DateStr(f.name), 2, 4)),
       FieldVal(Slice(DateStr(f.name), 0, 2)) >>

\* Per file: whether its name holds a date, the date's text as process_csv
\* stores it, and the calendar day the name's digits spell.
FileDates ==
    [i \in DOMAIN Files |->
        [ok   |-> HasDate(Files[i]),
         text |-> Txt(strptime(DateStr(Files[i].name)).date),
         day  |-> IF HasDate(Files[i]) THEN CalendarDay(Files[i]) ELSE << 0, 0, 0 >>]]

Earlier(a, b) ==
    \/ a[1] < b[1]
    \/ a[1] = b[1] /\ a[2] < b[2]
    \/ a[1] = b[1] /\ a[2] = b[2] /\ a[3] < b[3]

(***************************************************************************)
(* C1  Idempotence of ingestion                                            *)
(***************************************************************************)

\* C1: when the loop ingests a valid file that it has just ingested, the
\* table holds the same rows afterwards (same keys, same values, same
\* count) as after the first ingestion.
C1_IdempotentIngestion ==
    [][ ( /\ Ingests
          /\ last.file = last'.file
          /\ last.outcome = "written"
          /\ ValidFile(Files[last'.file]) )
        => SameRows(db', db) ]_vars

(***************************************************************************)
(* C2  Replace on collision                                                *)
(***************************************************************************)

\* C2: when a submitted row shares its key with a stored row, then after
\* the write every submitted row is stored exactly once under its key, with
\* the submitted values, and no row appears under a key that was neither
\* stored before nor submitted.
C2_ReplaceOnCollision ==
    [][ ( /\ Ingests
          /\ \E r \in Submitted(Files[last'.file]) : Key(r) \in Keys(db) )
        => /\ \A r \in Submitted(Files[last'.file]) :
                /\ Cardinality({ j \in DOMAIN db' : Key(db'[j]) = Key(r) }) = 1
                /\ \E j \in DOMAIN db' : db'[j] = r
           /\ Keys(db') \subseteq Keys(db) \cup KeysOf(Submitted(Files[last'.file]))
      ]_vars

(***************************************************************************)
(* C3  Per-file isolation in a batch                                       *)
(***************************************************************************)

\* C3: a file whose filename date does not parse is skipped and leaves the
\* table as it was; a valid file is passed to insert_data, which returns,
\* and on the bulk path every row it submits is then stored; either way the
\* loop goes on to the next file.
C3_PerFileIsolation ==
    [][ Ingests =>
        /\ pc' = "files"
        /\ ~HasDate(Files[last'.file]) =>
              /\ db' = db
              /\ last'.outcome = "skipped"
        /\ ValidFile(Files[last'.file]) =>
              /\ last'.outcome = "written"
              /\ last'.path = "bulk" =>
                    \A r \in Submitted(Files[last'.file]) : Count(db', r) >= 1
      ]_vars

\* A valid file was written after a file of the same batch was skipped for
\* its date.
C3_WrittenAfterBadFile ==
    /\ pc = "files" /\ badSeen
    /\ last.outcome = "written" /\ last.path = "bulk"
    /\ ValidFile(Files[last.file])
    /\ \A r \in Submitted(Files[last.file]) : Count(db, r) >= 1

(***************************************************************************)
(* C4  Required columns                                                    *)
(***************************************************************************)

\* C4: a file that lacks one of the twelve source columns is skipped: no
\* row of it is written and the loop goes on.
C4_RequiredColumns ==
    [][ ( /\ Ingests
          /\ \E c \in Range(SourceCols) : c \notin Range(Files[last'.file].header) )
        => /\ db' = db
           /\ last'.outcome = "skipped"
           /\ pc' = "files" ]_vars

(***************************************************************************)
(* C5  Comparison excludes unmatched contracts                             *)
(***************************************************************************)

\* C5: every row perform_comparison(date1, date2) returns names a contract
\* that has a stored row of date2.
C5_OnlyMatchedContracts ==
    comparison.shown =>
        \A k \in DOMAIN comparison.rows :
            \E i \in DOMAIN db :
                /\ db[i].date = comparison.date2
                /\ db[i].contract_d = comparison.rows[k].contract_d

\* A comparison returned rows while a contract of date1 has no row of date2.
C5_UnmatchedLeftOut ==
    /\ comparison.shown
    /\ comparison.rows # << >>
    /\ \E i \in DOMAIN db :
          /\ db[i].date = comparison.date1
          /\ \A j \in DOMAIN db :
                ~(db[j].date = comparison.date2 /\ db[j].contract_d = db[i].contract_d)

(***************************************************************************)
(* C6  Comparison deltas                                                   *)
(***************************************************************************)

\* C6: a returned row of contract c carries the open interest and close
\* price of the one stored row (date1, c) and of the one stored row
\* (date2, c), and their differences, date1's value minus date2's.
C6_Deltas ==
    comparison.shown =>
        \A k \in DOMAIN comparison.rows :
            \E i \in DOMAIN db, j \in DOMAIN db :
                LET row == comparison.rows[k]
                IN  /\ Key(db[i]) = << comparison.date1, row.contract_d >>
                    /\ Key(db[j]) = << comparison.date2, row.contract_d >>
                    /\ \A m \in DOMAIN db : Key(db[m]) = Key(db[i]) => m = i
                    /\ \A m \in DOMAIN db : Key(db[m]) = Key(db[j]) => m = j
                    /\ row.oi_today = db[i].oi_no_con
                    /\ row.close_today = db[i].close_price
                    /\ row.oi_comparison = db[j].oi_no_con
                    /\ row.close_comparison = db[j].close_price
                    /\ row.oi_comparison.k = "num"
                    /\ row.close_comparison.k = "num"
                    /\ row.oi_today.k = "num" =>
                          row.OI_Change = Num(db[i].oi_no_con.n - db[j].oi_no_con.n)
                    /\ row.close_today.k = "num" =>
                          row.Price_Change = Num(db[i].close_price.n - db[j].close_price.n)

\* Open interest 100 on date1 and 80 on date2 gave OI_Change = 20.
C6_HundredMinusEighty ==
    /\ comparison.shown
    /\ \E k \in DOMAIN comparison.rows :
          /\ comparison.rows[k].oi_today = Num(100)
          /\ comparison.rows[k].oi_comparison = Num(80)
          /\ comparison.rows[k].OI_Change = Num(20)
          /\ comparison.rows[k].Price_Change = Num(10)

(***************************************************************************)
(* C7  Date catalog                                                        *)
(***************************************************************************)

\* C7: what get_unique_dates returned is strictly ascending, holds exactly
\* the date values of the stored rows, puts the dates of the files in
\* calendar order, and is empty when the table is.
C7_DateCatalog ==
    pc \in { "ui", "done" } =>
        /\ \A i \in DOMAIN unique_dates, j \in DOMAIN unique_dates :
              i < j => CellLess(unique_dates[i], unique_dates[j])
        /\ Range(unique_dates) = { db[i].date : i \in DOMAIN db }
        /\ db = << >> => unique_dates = << >>
        /\ \A i \in DOMAIN unique_dates, j \in DOMAIN unique_dates :
              \A f \in DOMAIN Files, g \in DOMAIN Files :
                  ( /\ i < j /\ FileDates[f].ok /\ FileDates[g].ok
                    /\ unique_dates[i] = FileDates[f].text
                    /\ unique_dates[j] = FileDates[g].text )
                  => Earlier(FileDates[f].day, FileDates[g].day)

\* The catalog lists two dates of a table that holds more rows than dates.
C7_TwoDatesListed ==
    /\ pc = "ui"
    /\ Len(unique_dates) >= 2
    /\ Len(db) > Len(unique_dates)
    /\ \A i \in DOMAIN unique_dates : Len(unique_dates[i].s) = 10

(***************************************************************************)
(* C8  Numeric coercion of every numeric field                             *)
(***************************************************************************)

\* C8: every REAL field of every stored row holds a number or NULL.
C8_NumericOrNull ==
    \A i \in DOMAIN db : \A c \in RealCols : db[i][c].k \in { "num", "null" }

(***************************************************************************)
(* C9  Scoped storage access                                               *)
(***************************************************************************)

\* C9: between operations no connection is open: each operation has closed
\* the connection it opened, however it ended.
C9_NoConnectionLeftOpen == conns = 0

(***************************************************************************)
(* C10  A write leaves the other records untouched                         *)
(***************************************************************************)

\* C10: a stored row whose key is not the key of a submitted row is still
\* stored, as it was, after the write.
C10_OtherRowsUntouched ==
    [][ Ingests =>
        \A i \in DOMAIN db :
            Key(db[i]) \notin KeysOf(Submitted(Files[last'.file]))
                => \E j \in DOMAIN db' : db'[j] = db[i] ]_vars

====
